---- MODULE Spec2Model ----
(***************************************************************************)
(* Wallet & network session manager of src/src/App.jsx (component App):    *)
(* the React state of the component, the injected wallet                   *)
(* (window.ethereum) it talks to, and the asynchronous flows the component *)
(* starts (startup init, connectWallet, switchNetwork, handleChainChanged) *)
(* cut at their await points.  One step of the model is one run of         *)
(* synchronous JavaScript between two suspension points.                   *)
(***************************************************************************)
EXTENDS Integers, Sequences, FiniteSets, TLC

VARIABLES
    mounted,        \* "initial" | "mounted" | "unmounted": life cycle of App
    hasEthereum,    \* window.ethereum is present
    provider,       \* useState(null): "null" | "BrowserProvider"
    contracts,      \* useState({token: null, dice: null})
    account,        \* useState(""): "" is no account
    chainId,        \* useState(null): 0 is null
    toasts,         \* useState([]): sequence of {id, message, type}
    loadingStates,  \* useState({provider: true, contracts: true, wallet: false})
    lastErrorKey,   \* window._lastErrorKey
    now,            \* Date.now(), in clock ticks
    walletChain,    \* the chain the wallet is on
    walletAccounts, \* the account the wallet has authorised for the page, "" if none
    listeners,      \* handlers registered on window.ethereum
    flow,           \* the asynchronous flows: position and locals of each
    events,         \* clicks and wallet events so far
    invalidAddresses \* contract addresses of the build's environment that are unusable

vars == <<mounted, hasEthereum, provider, contracts, account, chainId, toasts,
          loadingStates, lastErrorKey, now, walletChain, walletAccounts,
          listeners, flow, events, invalidAddresses>>

session == <<provider, contracts, account, chainId>>

(***************************************************************************)
(* Bounds of the model.                                                    *)
(***************************************************************************)
StartTick == 4         \* Date.now() at page load, in ticks: 800 ms into a second
MaxNow == 2            \* clock ticks the clock may advance
TicksPerSecond == 5    \* one tick is 200 ms
MaxSwitch == 2         \* switchNetwork calls in one session
MaxEvents == 2         \* clicks and wallet events in one session

(***************************************************************************)
(* Network registry (NETWORKS, SUPPORTED_CHAIN_IDS).                       *)
(***************************************************************************)
MAINNET_CHAIN_ID == 50
APOTHEM_CHAIN_ID == 51

NETWORKS ==
    [MAINNET |-> [chainId |-> MAINNET_CHAIN_ID,
                  name |-> "XDC Mainnet",
                  rpcUrl |-> "VITE_XDC_MAINNET_RPC",
                  contracts |-> [token |-> "VITE_TOKEN_ADDRESS",
                                 dice |-> "VITE_DICE_ADDRESS"]],
     APOTHEM |-> [chainId |-> APOTHEM_CHAIN_ID,
                  name |-> "XDC Apothem Testnet",
                  rpcUrl |-> "VITE_XDC_APOTHEM_RPC",
                  contracts |-> [token |-> "VITE_APOTHEM_TOKEN_ADDRESS",
                                 dice |-> "VITE_APOTHEM_DICE_ADDRESS"]]]

NetworkKeys == {"MAINNET", "APOTHEM"}

SUPPORTED_CHAIN_IDS == {NETWORKS.MAINNET.chainId, NETWORKS.APOTHEM.chainId}

\* A chain id outside the registry, for the wallet to be on.
UNSUPPORTED_CHAIN_ID == 7

Chains == SUPPORTED_CHAIN_IDS \cup {UNSUPPORTED_CHAIN_ID}

Accounts == {"0x1111", "0x2222"}

\* Object.values(NETWORKS).find(n => n.chainId === id): the key of the entry.
NetworkKeyOf(id) == CHOOSE k \in NetworkKeys : NETWORKS[k].chainId = id

HasNetworkConfig(id) == \E k \in NetworkKeys : NETWORKS[k].chainId = id

NetworkOf(id) == NETWORKS[NetworkKeyOf(id)]

(***************************************************************************)
(* Notification queue: addToast, removeToast and the expiry timer.         *)
(***************************************************************************)
TOAST_LIMIT == 3

\* `toast_${Date.now()}_${Math.random()...}`: the time part is the clock, the
\* random part is a value no toast of the queue created at this time carries
\* (two draws of Math.random are taken never to collide).
NewToastId(ts, t) ==
    [time |-> t,
     rand |-> CHOOSE r \in 1..(Len(ts) + 1) :
                 /\ \A i \in 1..Len(ts) : ts[i].id # [time |-> t, rand |-> r]
                 /\ \A q \in 1..(r - 1) :
                        \E i \in 1..Len(ts) : ts[i].id = [time |-> t, rand |-> q]]

\* newToasts.slice(-3)
SliceLast(s, n) == IF Len(s) > n THEN SubSeq(s, Len(s) - n + 1, Len(s)) ELSE s

\* prev.filter(toast => toast.id !== id)
RECURSIVE FilterOutId(_, _)
FilterOutId(ts, id) ==
    IF ts = <<>> THEN <<>>
    ELSE IF Head(ts).id = id THEN FilterOutId(Tail(ts), id)
         ELSE <<Head(ts)>> \o FilterOutId(Tail(ts), id)

\* A variant of the updater of addToast that trims the front only when the
\* queue is already over the limit.
AddToastUpdaterLateTrim(prev, id, message, type) ==
    IF \E i \in 1..Len(prev) : prev[i].message = message
    THEN prev
    ELSE LET newToasts == Append(prev, [id |-> id, message |-> message, type |-> type])
         IN  IF Len(newToasts) > TOAST_LIMIT + 1
             THEN SliceLast(newToasts, TOAST_LIMIT)
             ELSE newToasts

\* A variant of the updater of addToast without the equal-text test.
AddToastUpdaterNoDedup(prev, id, message, type) ==
    LET newToasts == Append(prev, [id |-> id, message |-> message, type |-> type])
    IN  IF Len(newToasts) > TOAST_LIMIT
        THEN SliceLast(newToasts, TOAST_LIMIT)
        ELSE newToasts

\* The updater addToast hands to setToasts.
AddToastUpdater(prev, id, message, type) ==
    IF \E i \in 1..Len(prev) : prev[i].message = message
    THEN prev
    ELSE LET newToasts == Append(prev, [id |-> id, message |-> message, type |-> type])
         IN  IF Len(newToasts) > TOAST_LIMIT
             THEN SliceLast(newToasts, TOAST_LIMIT)
             ELSE newToasts

(***************************************************************************)
(* Errors: {code, message}.  code 0 is "no numeric code"; message is the   *)
(* text as a sequence of words, <<>> when there is none.                   *)
(***************************************************************************)
Err(code, message) == [code |-> code, message |-> message]

NoError == Err(0, <<"no", "error">>)

USER_REJECTED == 4001
REQUEST_PENDING == -32002
INTERNAL_ERROR == -32603
UNRECOGNIZED_CHAIN == 4902

UserRejectedError == Err(USER_REJECTED, <<"User", "rejected", "the", "request.">>)
RequestPendingError == Err(REQUEST_PENDING, <<"Request", "already", "pending.">>)
InternalRpcError == Err(INTERNAL_ERROR, <<"Internal", "JSON-RPC", "error.">>)
UnrecognizedChainError == Err(UNRECOGNIZED_CHAIN, <<"Unrecognized", "chain", "ID.">>)

NoWalletError == Err(0, <<"Please", "install", "MetaMask", "to", "use", "this", "application">>)
NoAccountsError == Err(0, <<"No", "accounts", "found">>)
SwitchTimeoutError == Err(0, <<"Network", "switch", "timeout">>)
UnsupportedNetworkError(id) ==
    Err(0, <<"Please", "switch", "to", "a", "supported", "network.", "Connected", "to",
             "chain", "ID:", ToString(id)>>)
NetworkUnreachableError(id) == Err(0, <<"Failed", "to", "connect", "to", NetworkOf(id).name>>)
UnsupportedBindingError(id) ==
    Err(0, <<"Unsupported", "network.", "Connected", "to", "chain", "ID:", ToString(id)>>)
\* what ethers throws for a signer the wallet does not hold / an unusable address
\* what a provider throws from getNetwork() once the wallet has left the
\* network its first getNetwork() found (ethers: NETWORK_ERROR, no numeric code)
NetworkChangedError == Err(0, <<"network", "changed:">>)
SignerError == Err(0, <<"invalid", "account">>)
ContractTargetError(address) == Err(0, <<"invalid", "value", "for", "Contract", "target", address>>)

\* String.prototype.includes on the words of a message
Includes(message, needle) ==
    \E i \in 1..(Len(message) - Len(needle) + 1) :
        SubSeq(message, i, i + Len(needle) - 1) = needle

\* Math.floor(Date.now() / 1000)
Second(t) == t \div TicksPerSecond

\* `${error.message || "Unknown error"}_${Math.floor(Date.now() / 1000)}`
ErrorKey(error, t) ==
    [message |-> IF error.message = <<>> THEN <<"Unknown", "error">> ELSE error.message,
     second |-> Second(t)]

NoErrorKey == [message |-> <<>>, second |-> -1]

\* A variant of the classification that shows the first word of the raw
\* message of a -32603 error after the fixed text.
ClassifyWithDetail(error) ==
    IF error.code = INTERNAL_ERROR
    THEN [message |-> "Network connection issue. Please check your wallet connection."
                         \o (IF error.message = <<>> THEN "" ELSE " " \o error.message[1]),
          type |-> "error"]
    ELSE [message |-> "Something went wrong. Please try again later.", type |-> "error"]

\* A variant of the classification that looks at the message before the code.
ClassifyMessageFirst(error) ==
    IF Includes(error.message, <<"insufficient", "allowance">>)
    THEN [message |-> "Insufficient token allowance. Please approve tokens first.",
          type |-> "error"]
    ELSE IF Includes(error.message, <<"insufficient", "balance">>)
    THEN [message |-> "Insufficient token balance for this transaction.",
          type |-> "error"]
    ELSE IF error.code = USER_REJECTED
    THEN [message |-> "Transaction cancelled by user", type |-> "warning"]
    ELSE IF error.code = REQUEST_PENDING
    THEN [message |-> "Please check your wallet - a connection request is pending",
          type |-> "warning"]
    ELSE IF error.code = INTERNAL_ERROR
    THEN [message |-> "Network connection issue. Please check your wallet connection.",
          type |-> "error"]
    ELSE [message |-> "Something went wrong. Please try again later.", type |-> "error"]

\* The classification of handleError: the message and type it shows.
Classify(error) ==
    IF error.code = USER_REJECTED
    THEN [message |-> "Transaction cancelled by user", type |-> "warning"]
    ELSE IF error.code = REQUEST_PENDING
    THEN [message |-> "Please check your wallet - a connection request is pending",
          type |-> "warning"]
    ELSE IF error.code = INTERNAL_ERROR
    THEN [message |-> "Network connection issue. Please check your wallet connection.",
          type |-> "error"]
    ELSE IF Includes(error.message, <<"insufficient", "allowance">>)
    THEN [message |-> "Insufficient token allowance. Please approve tokens first.",
          type |-> "error"]
    ELSE IF Includes(error.message, <<"insufficient", "balance">>)
    THEN [message |-> "Insufficient token balance for this transaction.",
          type |-> "error"]
    ELSE [message |-> "Something went wrong. Please try again later.", type |-> "error"]

(***************************************************************************)
(* The component's state as one value, and the synchronous pieces of the   *)
(* handlers as functions on it.  A world is the state together with the    *)
(* flows; an action applies the composition its code runs before the next  *)
(* await.                                                                  *)
(***************************************************************************)
NoContract == [address |-> "null", signer |-> "null"]
NoContracts == [token |-> NoContract, dice |-> NoContract]

\* new ethers.Contract(address, abi, signer)
Contract(address, signer) == [address |-> address, signer |-> signer]

State ==
    [provider |-> provider, contracts |-> contracts, account |-> account,
     chainId |-> chainId, toasts |-> toasts, loadingStates |-> loadingStates,
     lastErrorKey |-> lastErrorKey]

World == [s |-> State, fl |-> flow]

Apply(w) ==
    /\ provider' = w.s.provider
    /\ contracts' = w.s.contracts
    /\ account' = w.s.account
    /\ chainId' = w.s.chainId
    /\ toasts' = w.s.toasts
    /\ loadingStates' = w.s.loadingStates
    /\ lastErrorKey' = w.s.lastErrorKey
    /\ flow' = w.fl

addToast(s, message, type) ==
    [s EXCEPT !.toasts = AddToastUpdater(@, NewToastId(@, now), message, type)]

\* removeToast, and the body of the expiry timer of addToast
removeToast(s, id) == [s EXCEPT !.toasts = FilterOutId(@, id)]

handleError(s, error) ==
    IF s.lastErrorKey = ErrorKey(error, now)
    THEN s
    ELSE addToast([s EXCEPT !.lastErrorKey = ErrorKey(error, now)],
                  Classify(error).message, Classify(error).type)

setContracts(s, c) == [s EXCEPT !.contracts = c]
setProvider(s, p) == [s EXCEPT !.provider = p]
setAccount(s, a) == [s EXCEPT !.account = a]
setChainId(s, c) == [s EXCEPT !.chainId = c]
setLoading(s, key, b) == [s EXCEPT !.loadingStates[key] = b]

\* setContracts({token: null, dice: null}); setProvider(null)
ClearSession(s) == setProvider(setContracts(s, NoContracts), "null")

(***************************************************************************)
(* The handlers on window.ethereum: how many handleAccountsChanged and     *)
(* handleChainChanged are registered, and the switchNetwork runs whose     *)
(* chainChangeHandler is.                                                  *)
(***************************************************************************)
NoListeners == [accountsChanged |-> 0, chainChanged |-> 0, temp |-> {}]

\* window.ethereum.on("accountsChanged", ...); window.ethereum.on("chainChanged", ...)
RegisterListeners(l) ==
    [l EXCEPT !.accountsChanged = @ + 1, !.chainChanged = @ + 1]

\* the cleanup of the effect: removeListener of the two handlers it registered
CleanupListeners(l) ==
    [l EXCEPT !.accountsChanged = IF @ > 0 THEN @ - 1 ELSE 0,
              !.chainChanged = IF @ > 0 THEN @ - 1 ELSE 0]

\* A variant of the re-run of the effect that registers the new handlers
\* without the cleanup of the last run.
ListenerEffectNoCleanup(l) == RegisterListeners(l)

\* a re-run of the subscription effect: the cleanup of the last run, then the
\* registration of the handlers of the new render
ListenerEffect(l) == RegisterListeners(CleanupListeners(l))

\* The listeners after the render that follows a step: the effect depends on
\* handleChainChanged, which is made anew when provider or account changed.
Rerender(l) ==
    IF hasEthereum /\ <<provider', account'>> # <<provider, account>>
    THEN ListenerEffect(l)
    ELSE l

(***************************************************************************)
(* Flows.  "init" is the startup effect, "connect" connectWallet, "chain"  *)
(* the asynchronous part of handleChainChanged, and each switchNetwork     *)
(* call is a run of its own, which keeps its timer and promise after it    *)
(* ended.                                                                  *)
(***************************************************************************)
SwitchNames == <<"switch1", "switch2", "switch3", "switch4">>
Runs == {SwitchNames[i] : i \in 1..MaxSwitch}
FlowIds == {"init", "connect", "chain"} \cup Runs

Kind(f) == IF f \in Runs THEN "switch" ELSE f

IdleFlow ==
    [pc |-> "idle",
     closure |-> "",       \* `account` as the closure of the handler captured it
     account |-> "",       \* the account handed to initializeContracts
     chain |-> 0,          \* currentChainId, as the last getNetwork() of the flow gave it
     target |-> 0,         \* network.chainId of a switchNetwork run
     caller |-> "",        \* who awaits a switchNetwork run: "user" or "connect"
     timer |-> "none",     \* the 10 s timer: none, armed, fired, cleared
     promise |-> "none",   \* networkSwitchPromise: none, pending, resolved, rejected
     requests |-> <<>>,    \* the wallet requests a switchNetwork run issued
     error |-> NoError]    \* the error a switchNetwork run threw to its caller

InFlight(f) == flow[f].pc \notin {"idle", "done"}

setPc(w, f, pc) == [w EXCEPT !.fl[f].pc = pc]

\* What is left of a switchNetwork run that ended: its target, what it threw,
\* and its timer and promise, which nothing cancels.
EndedRun(run, error) ==
    [IdleFlow EXCEPT !.pc = "done", !.target = run.target, !.caller = run.caller,
                     !.timer = run.timer, !.promise = run.promise, !.error = error]

\* the finally blocks, and the end of the flow
Finish(w, f) ==
    IF f = "init"
    THEN [s |-> setLoading(setLoading(w.s, "provider", FALSE), "contracts", FALSE),
          fl |-> [w.fl EXCEPT !["init"].pc = "done"]]
    ELSE IF f = "connect"
    THEN [s |-> setLoading(w.s, "wallet", FALSE),
          fl |-> [w.fl EXCEPT !["connect"] = IdleFlow]]
    ELSE IF f = "chain"
    THEN [w EXCEPT !.fl["chain"] = IdleFlow]
    ELSE LET ended == [s |-> setLoading(w.s, "wallet", FALSE),
                       fl |-> [w.fl EXCEPT ![f] = EndedRun(w.fl[f], NoError)]]
         IN  IF w.fl[f].caller = "connect"
             THEN \* connectWallet: await switchNetwork("mainnet"); return;
                  [s |-> setLoading(ended.s, "wallet", FALSE),
                   fl |-> [ended.fl EXCEPT !["connect"] = IdleFlow]]
             ELSE ended

\* the catch block of connectWallet
ConnectCatch(w, error) ==
    Finish([w EXCEPT !.s = setAccount(ClearSession(handleError(@, error)), "")],
           "connect")

\* A variant of the catch block of switchNetwork that keeps the provider.
SwitchCatchKeepsProvider(w, f, error) ==
    LET caught == [s |-> setLoading(setContracts(handleError(w.s, error), NoContracts),
                                    "wallet", FALSE),
                   fl |-> [w.fl EXCEPT ![f] = EndedRun(w.fl[f], error)]]
    IN  IF w.fl[f].caller = "connect" THEN ConnectCatch(caught, error) ELSE caught

\* the catch and finally blocks of switchNetwork; the error goes on to the caller
SwitchCatch(w, f, error) ==
    LET caught == [s |-> setLoading(ClearSession(handleError(w.s, error)),
                                    "wallet", FALSE),
                   fl |-> [w.fl EXCEPT ![f] = EndedRun(w.fl[f], error)]]
    IN  IF w.fl[f].caller = "connect" THEN ConnectCatch(caught, error) ELSE caught

\* what a flow does with an error thrown inside its try block
Throw(w, f, error) ==
    IF f = "init"
    THEN Finish([w EXCEPT !.s = handleError(@, error)], "init")
    ELSE IF f = "connect"
    THEN ConnectCatch(w, error)
    ELSE IF f = "chain"
    THEN Finish([w EXCEPT !.s = ClearSession(handleError(@, error))], "chain")
    ELSE SwitchCatch(w, f, error)

\* the code after `await initializeContracts(...)`
AfterInitializeContracts(w, f) ==
    IF f = "init"
    THEN Finish([w EXCEPT !.s = setAccount(@, w.fl[f].account)], f)
    ELSE IF f = "connect"
    THEN Finish([w EXCEPT !.s = addToast(setAccount(@, w.fl[f].account),
                                         "Wallet connected successfully!", "success")], f)
    ELSE IF f = "chain"
    THEN Finish([w EXCEPT !.s = addToast(@, "Network changed successfully", "success")], f)
    ELSE Finish([w EXCEPT !.s = addToast(@, "Successfully switched to "
                                             \o NetworkOf(w.fl[f].target).name, "success")], f)

\* the code after `await validateNetwork(...)`
AfterValidateNetwork(w, f) ==
    IF f = "init"
    THEN setPc(w, f, "init:eth_accounts")
    ELSE setPc(w, f, "initializeContracts:getNetwork")

(***************************************************************************)
(* validateNetwork and initializeContracts, one step per await.            *)
(***************************************************************************)
\* validateNetwork up to `await provider.getBlockNumber()`; c is the chain
\* provider.getNetwork() reported
validateNetworkGotNetwork(w, f, c) ==
    LET w1 == [w EXCEPT !.s = setChainId(@, c), !.fl[f].chain = c]
    IN  IF c \notin SUPPORTED_CHAIN_IDS
        THEN Throw(w1, f, UnsupportedNetworkError(c))
        ELSE setPc(w1, f, "validateNetwork:getBlockNumber")

\* A variant of the catch block of initializeContracts that leaves the
\* contracts as they were.
initializeContractsCatchKeeps(w, f, error) ==
    AfterInitializeContracts(
        [w EXCEPT !.s = setLoading(handleError(@, error), "contracts", FALSE)], f)

\* the catch block of initializeContracts; the caller goes on with null
initializeContractsCatch(w, f, error) ==
    AfterInitializeContracts(
        [w EXCEPT !.s = setLoading(setContracts(handleError(@, error), NoContracts),
                                   "contracts", FALSE)], f)

\* initializeContracts up to `await provider.getSigner(account)`
initializeContractsGotNetwork(w, f, c) ==
    IF ~HasNetworkConfig(c)
    THEN initializeContractsCatch([w EXCEPT !.fl[f].chain = c], f, UnsupportedBindingError(c))
    ELSE setPc([w EXCEPT !.fl[f].chain = c], f, "initializeContracts:getSigner")

\* A variant of initializeContracts that takes the addresses of the primary
\* network whatever chain the provider is on.
initializeContractsGotSignerMainnet(w, f, signerOk) ==
    LET config == NETWORKS.MAINNET.contracts
        signer == w.fl[f].account
    IN  IF ~signerOk
        THEN initializeContractsCatch(w, f, SignerError)
        ELSE AfterInitializeContracts(
                 [w EXCEPT !.s = setLoading(
                      setContracts(@, [token |-> Contract(config.token, signer),
                                       dice |-> Contract(config.dice, signer)]),
                      "contracts", FALSE)], f)

\* initializeContracts from the signer on: the two constructors, setContracts
initializeContractsGotSigner(w, f, signerOk) ==
    LET config == NetworkOf(w.fl[f].chain).contracts
        signer == w.fl[f].account
    IN  IF ~signerOk
        THEN initializeContractsCatch(w, f, SignerError)
        ELSE IF config.token \in invalidAddresses
        THEN initializeContractsCatch(w, f, ContractTargetError(config.token))
        ELSE IF config.dice \in invalidAddresses
        THEN initializeContractsCatch(w, f, ContractTargetError(config.dice))
        ELSE AfterInitializeContracts(
                 [w EXCEPT !.s = setLoading(
                      setContracts(@, [token |-> Contract(config.token, signer),
                                       dice |-> Contract(config.dice, signer)]),
                      "contracts", FALSE)], f)

\* A variant in which the provider reports whatever chain the wallet is on.
ProviderFollowsWallet(f) == FALSE

\* The provider of flow f has found its network (the flow's first
\* getNetwork() sets `chain`) and the wallet is on another chain since: a
\* BrowserProvider made without a network keeps the first network it finds.
ProviderNetworkChanged(f) == flow[f].chain # 0 /\ walletChain # flow[f].chain

\* A microtask is due: a switchNetwork run waits on a settled promise.  The
\* event loop runs it before any other handler, timer or wallet answer.
MicrotaskDue ==
    \E r \in Runs : /\ flow[r].pc = "switchNetwork:networkSwitchPromise"
                    /\ flow[r].promise # "pending"

Ready == mounted = "mounted" /\ ~MicrotaskDue

ValidateNetwork_getNetwork(f) ==
    /\ Ready
    /\ flow[f].pc = "validateNetwork:getNetwork"
    /\ \/ /\ ~ProviderNetworkChanged(f)
          /\ Apply(validateNetworkGotNetwork(World, f, walletChain))
       \/ /\ ProviderNetworkChanged(f)
          /\ Apply(Throw(World, f, NetworkChangedError))
       \/ Apply(Throw(World, f, InternalRpcError))
    /\ listeners' = Rerender(listeners)
    /\ UNCHANGED <<mounted, hasEthereum, now, walletChain, walletAccounts,
                   events, invalidAddresses>>

ValidateNetwork_getBlockNumber(f) ==
    /\ Ready
    /\ flow[f].pc = "validateNetwork:getBlockNumber"
    /\ \/ Apply(AfterValidateNetwork(World, f))
       \/ Apply(Throw(World, f, NetworkUnreachableError(flow[f].chain)))
    /\ listeners' = Rerender(listeners)
    /\ UNCHANGED <<mounted, hasEthereum, now, walletChain, walletAccounts,
                   events, invalidAddresses>>

InitializeContracts_getNetwork(f) ==
    /\ Ready
    /\ flow[f].pc = "initializeContracts:getNetwork"
    /\ \/ /\ ~ProviderNetworkChanged(f)
          /\ Apply(initializeContractsGotNetwork(World, f, walletChain))
       \/ /\ ProviderNetworkChanged(f)
          /\ Apply(initializeContractsCatch(World, f, NetworkChangedError))
       \/ Apply(initializeContractsCatch(World, f, InternalRpcError))
    /\ listeners' = Rerender(listeners)
    /\ UNCHANGED <<mounted, hasEthereum, now, walletChain, walletAccounts,
                   events, invalidAddresses>>

\* provider.getSigner(account) succeeds only for an account the wallet holds
InitializeContracts_getSigner(f) ==
    /\ Ready
    /\ flow[f].pc = "initializeContracts:getSigner"
    /\ \/ /\ walletAccounts = flow[f].account
          /\ Apply(initializeContractsGotSigner(World, f, TRUE))
       \/ Apply(initializeContractsGotSigner(World, f, FALSE))
    /\ listeners' = Rerender(listeners)
    /\ UNCHANGED <<mounted, hasEthereum, now, walletChain, walletAccounts,
                   events, invalidAddresses>>

(***************************************************************************)
(* Startup and teardown (the two effects of App).                          *)
(***************************************************************************)
InitialState ==
    [provider |-> "null", contracts |-> NoContracts, account |-> "", chainId |-> 0,
     toasts |-> <<>>,
     loadingStates |-> [provider |-> TRUE, contracts |-> TRUE, wallet |-> FALSE],
     lastErrorKey |-> NoErrorKey]

\* The first run of both effects: init() up to its first await, and the
\* registration of handleAccountsChanged and handleChainChanged.
Mount ==
    /\ mounted = "initial"
    /\ mounted' = "mounted"
    /\ IF ~hasEthereum
       THEN /\ Apply(Finish(World, "init"))
            /\ UNCHANGED listeners
       ELSE /\ Apply([s |-> setProvider(State, "BrowserProvider"),
                      fl |-> [flow EXCEPT !["init"].pc = "validateNetwork:getNetwork"]])
            /\ listeners' = RegisterListeners(listeners)
    /\ UNCHANGED <<hasEthereum, now, walletChain, walletAccounts, events,
                   invalidAddresses>>

\* The cleanups of the effects.  The component's state is gone with it, and
\* what its flows still do is seen by nobody; listeners the cleanups do not
\* remove stay on the wallet.
Unmount ==
    /\ mounted = "mounted"
    /\ mounted' = "unmounted"
    /\ Apply([s |-> [InitialState EXCEPT !.lastErrorKey = lastErrorKey],
              fl |-> [f \in FlowIds |-> IdleFlow]])
    /\ listeners' = CleanupListeners(listeners)
    /\ UNCHANGED <<hasEthereum, now, walletChain, walletAccounts, events,
                   invalidAddresses>>

\* init(): the answer to eth_accounts
Init_ethAccounts ==
    /\ Ready
    /\ flow["init"].pc = "init:eth_accounts"
    /\ \/ IF walletAccounts # ""
          THEN Apply([World EXCEPT !.fl["init"].account = walletAccounts,
                                   !.fl["init"].pc = "initializeContracts:getNetwork"])
          ELSE Apply(Finish(World, "init"))
       \/ Apply(Throw(World, "init", InternalRpcError))
    /\ listeners' = Rerender(listeners)
    /\ UNCHANGED <<mounted, hasEthereum, now, walletChain, walletAccounts,
                   events, invalidAddresses>>

(***************************************************************************)
(* switchNetwork.                                                          *)
(***************************************************************************)
HexDigit(d) ==
    CASE d = 0 -> "0" [] d = 1 -> "1" [] d = 2 -> "2" [] d = 3 -> "3"
      [] d = 4 -> "4" [] d = 5 -> "5" [] d = 6 -> "6" [] d = 7 -> "7"
      [] d = 8 -> "8" [] d = 9 -> "9" [] d = 10 -> "a" [] d = 11 -> "b"
      [] d = 12 -> "c" [] d = 13 -> "d" [] d = 14 -> "e" [] d = 15 -> "f"

\* Number.prototype.toString(16)
RECURSIVE ToString16(_)
ToString16(n) == IF n < 16 THEN HexDigit(n) ELSE ToString16(n \div 16) \o HexDigit(n % 16)

\* `0x${network.chainId.toString(16)}`
ChainIdHex(network) == "0x" \o ToString16(network.chainId)

SwitchEthereumChainRequest(network) ==
    [method |-> "wallet_switchEthereumChain",
     params |-> <<[chainId |-> ChainIdHex(network)]>>]

NATIVE_DECIMALS == 18

AddEthereumChainRequest(network) ==
    [method |-> "wallet_addEthereumChain",
     params |-> <<[chainId |-> ChainIdHex(network),
                   chainName |-> network.name,
                   rpcUrls |-> <<network.rpcUrl>>,
                   nativeCurrency |-> [name |-> "XDC", symbol |-> "XDC",
                                       decimals |-> NATIVE_DECIMALS]]>>]

\* networkType === "mainnet" ? NETWORKS.MAINNET : NETWORKS.APOTHEM
NetworkOfType(networkType) ==
    IF networkType = "mainnet" THEN NETWORKS.MAINNET ELSE NETWORKS.APOTHEM

\* the run the next call of switchNetwork becomes
FreeRuns == {i \in 1..MaxSwitch : flow[SwitchNames[i]].pc = "idle"}
NextRun == SwitchNames[CHOOSE i \in FreeRuns : \A j \in FreeRuns : i <= j]

\* switchNetwork up to `await window.ethereum.request(wallet_switchEthereumChain)`:
\* sets the flag, clears the contracts, arms the timer, registers
\* chainChangeHandler and issues the request.  `closure` is the account of
\* the render whose switchNetwork is called.
switchNetworkStart(w, r, networkType, caller, closure) ==
    [s |-> setContracts(setLoading(w.s, "wallet", TRUE), NoContracts),
     fl |-> [w.fl EXCEPT ![r] =
                [IdleFlow EXCEPT !.pc = "switchNetwork:wallet_switchEthereumChain",
                                 !.closure = closure,
                                 !.account = closure,
                                 !.target = NetworkOfType(networkType).chainId,
                                 !.caller = caller,
                                 !.timer = "armed",
                                 !.promise = "pending",
                                 !.requests = <<SwitchEthereumChainRequest(
                                                   NetworkOfType(networkType))>>]]]

\* A click on a network button of the account dropdown (shown while an
\* account is set).
SwitchNetwork(networkType) ==
    /\ Ready
    /\ events < MaxEvents
    /\ events' = events + 1
    /\ hasEthereum
    /\ account # ""
    /\ FreeRuns # {}
    /\ Apply(switchNetworkStart(World, NextRun, networkType, "user", account))
    /\ listeners' = Rerender([listeners EXCEPT !.temp = @ \cup {NextRun}])
    /\ UNCHANGED <<mounted, hasEthereum, now, walletChain, walletAccounts,
                   invalidAddresses>>

\* the wallet's answer to wallet_switchEthereumChain
Switch_request(r) ==
    /\ Ready
    /\ flow[r].pc = "switchNetwork:wallet_switchEthereumChain"
    /\ \/ /\ walletChain = flow[r].target
          /\ Apply(setPc(World, r, "switchNetwork:networkSwitchPromise"))
       \/ /\ walletChain # flow[r].target
          /\ Apply([World EXCEPT
                      !.fl[r].pc = "switchNetwork:wallet_addEthereumChain",
                      !.fl[r].requests =
                          Append(@, AddEthereumChainRequest(NetworkOf(flow[r].target)))])
       \/ \E e \in {UserRejectedError, RequestPendingError, InternalRpcError} :
              Apply(Throw(World, r, e))
    /\ listeners' = Rerender(listeners)
    /\ UNCHANGED <<mounted, hasEthereum, now, walletChain, walletAccounts,
                   events, invalidAddresses>>

\* the wallet's answer to wallet_addEthereumChain
Switch_addChain(r) ==
    /\ Ready
    /\ flow[r].pc = "switchNetwork:wallet_addEthereumChain"
    /\ \/ Apply(setPc(World, r, "switchNetwork:networkSwitchPromise"))
       \/ \E e \in {UserRejectedError, InternalRpcError} : Apply(Throw(World, r, e))
    /\ listeners' = Rerender(listeners)
    /\ UNCHANGED <<mounted, hasEthereum, now, walletChain, walletAccounts,
                   events, invalidAddresses>>

\* switchNetwork after `await networkSwitchPromise`
Switch_promise(r) ==
    /\ mounted = "mounted"
    /\ flow[r].pc = "switchNetwork:networkSwitchPromise"
    /\ flow[r].promise # "pending"
    /\ IF flow[r].promise = "rejected"
       THEN Apply(Throw(World, r, SwitchTimeoutError))
       ELSE IF flow[r].closure # ""
       THEN Apply([s |-> setProvider(State, "BrowserProvider"),
                   fl |-> [flow EXCEPT ![r].pc = "validateNetwork:getNetwork"]])
       ELSE Apply(Finish([World EXCEPT !.s =
                     addToast(@, "Successfully switched to "
                                  \o NetworkOf(flow[r].target).name, "success")], r))
    /\ listeners' = Rerender(listeners)
    /\ UNCHANGED <<mounted, hasEthereum, now, walletChain, walletAccounts,
                   events, invalidAddresses>>

\* the callback of setTimeout(..., 10000): reject(new Error("Network switch timeout"))
SwitchTimerFires(r) ==
    /\ Ready
    /\ flow[r].timer = "armed"
    /\ flow' = [flow EXCEPT ![r].timer = "fired",
                            ![r].promise = IF @ = "pending" THEN "rejected" ELSE @]
    /\ UNCHANGED <<mounted, hasEthereum, provider, contracts, account, chainId, toasts,
                   loadingStates, lastErrorKey, now, walletChain, walletAccounts,
                   listeners, events, invalidAddresses>>

(***************************************************************************)
(* connectWallet.                                                          *)
(***************************************************************************)
\* A click on "Connect Wallet" (shown while no account is set, disabled
\* while loadingStates.wallet), up to `await eth_requestAccounts`.
ConnectWallet ==
    /\ Ready
    /\ events < MaxEvents
    /\ events' = events + 1
    /\ account = ""
    /\ ~loadingStates.wallet
    /\ flow["connect"].pc = "idle"
    /\ LET w == [World EXCEPT !.s = setLoading(@, "wallet", TRUE),
                              !.fl["connect"].closure = account]
       IN  IF ~hasEthereum
           THEN Apply(Throw(w, "connect", NoWalletError))
           ELSE Apply([w EXCEPT !.s = setProvider(@, "BrowserProvider"),
                                !.fl["connect"].pc = "connectWallet:eth_requestAccounts"])
    /\ listeners' = Rerender(listeners)
    /\ UNCHANGED <<mounted, hasEthereum, now, walletChain, walletAccounts,
                   invalidAddresses>>

\* the wallet's answer to eth_requestAccounts, up to
\* `await currentProvider.getNetwork()`
Connect_requestAccounts ==
    /\ Ready
    /\ flow["connect"].pc = "connectWallet:eth_requestAccounts"
    /\ \/ \E a \in Accounts :
              /\ walletAccounts \in {"", a}
              /\ walletAccounts' = a
              /\ Apply([World EXCEPT !.fl["connect"].account = a,
                                     !.fl["connect"].pc = "connectWallet:getNetwork"])
       \/ /\ walletAccounts = ""
          /\ UNCHANGED walletAccounts
          /\ Apply(Throw(World, "connect", NoAccountsError))
       \/ /\ UNCHANGED walletAccounts
          /\ \E e \in {UserRejectedError, RequestPendingError} :
                 Apply(Throw(World, "connect", e))
    /\ listeners' = Rerender(listeners)
    /\ UNCHANGED <<mounted, hasEthereum, now, walletChain, events,
                   invalidAddresses>>

\* connectWallet after `await currentProvider.getNetwork()`: on an
\* unsupported chain it clears the session and calls switchNetwork("mainnet")
\* of its own render, otherwise it goes on to validateNetwork.
Connect_getNetwork ==
    /\ Ready
    /\ flow["connect"].pc = "connectWallet:getNetwork"
    /\ \/ /\ walletChain \notin SUPPORTED_CHAIN_IDS
          /\ FreeRuns # {}
          /\ Apply(switchNetworkStart(
                       [World EXCEPT !.s = ClearSession(@),
                                     !.fl["connect"].chain = walletChain,
                                     !.fl["connect"].pc = "connectWallet:switchNetwork"],
                       NextRun, "mainnet", "connect", flow["connect"].closure))
          /\ listeners' = Rerender([listeners EXCEPT !.temp = @ \cup {NextRun}])
       \/ /\ walletChain \in SUPPORTED_CHAIN_IDS
          /\ Apply([World EXCEPT !.fl["connect"].chain = walletChain,
                                 !.fl["connect"].pc = "validateNetwork:getNetwork"])
          /\ listeners' = Rerender(listeners)
       \/ /\ Apply(Throw(World, "connect", InternalRpcError))
          /\ listeners' = Rerender(listeners)
    /\ UNCHANGED <<mounted, hasEthereum, now, walletChain, walletAccounts, events,
                   invalidAddresses>>

\* handleLogout, from the account dropdown
HandleLogout ==
    /\ Ready
    /\ events < MaxEvents
    /\ events' = events + 1
    /\ account # ""
    /\ Apply([World EXCEPT !.s = addToast(setContracts(setAccount(@, ""), NoContracts),
                                          "Logged out successfully", "success")])
    /\ listeners' = Rerender(listeners)
    /\ UNCHANGED <<mounted, hasEthereum, now, walletChain, walletAccounts,
                   invalidAddresses>>

(***************************************************************************)
(* Events the wallet pushes.                                               *)
(***************************************************************************)
\* chainChangeHandler of every switchNetwork run whose listener is registered
chainChangeHandlers(fl, newChainId) ==
    [f \in FlowIds |->
        IF f \in listeners.temp /\ fl[f].target = newChainId
        THEN [fl[f] EXCEPT !.timer = IF @ = "armed" THEN "cleared" ELSE @,
                           !.promise = IF @ = "pending" THEN "resolved" ELSE @]
        ELSE fl[f]]

\* handleChainChanged up to its first await; provider and account are those
\* of the render that registered it
handleChainChanged(w, newChainId) ==
    LET w1 == [w EXCEPT !.s = setChainId(@, newChainId)]
    IN  IF newChainId \notin SUPPORTED_CHAIN_IDS
        THEN [w1 EXCEPT !.s = addToast(ClearSession(@),
                                       "Please switch to a supported network", "warning")]
        ELSE IF w.s.provider # "null" /\ w.s.account # ""
        THEN [w1 EXCEPT !.s = setProvider(@, "BrowserProvider"),
                        !.fl["chain"] = [IdleFlow EXCEPT
                                            !.pc = "validateNetwork:getNetwork",
                                            !.closure = w.s.account,
                                            !.account = w.s.account]]
        ELSE w1

\* The wallet moves to another chain and emits chainChanged.  One run of
\* handleChainChanged is followed at a time.
WalletChainChanged(newChainId) ==
    /\ Ready
    /\ events < MaxEvents
    /\ events' = events + 1
    /\ hasEthereum
    /\ newChainId # walletChain
    /\ walletChain' = newChainId
    /\ (newChainId \in SUPPORTED_CHAIN_IDS /\ provider # "null" /\ account # "")
           => flow["chain"].pc = "idle"
    /\ Apply(handleChainChanged([World EXCEPT !.fl = chainChangeHandlers(@, newChainId)],
                                newChainId))
    /\ listeners' = Rerender([listeners EXCEPT
                                  !.temp = {r \in @ : flow[r].target # newChainId}])
    /\ UNCHANGED <<mounted, hasEthereum, now, walletAccounts, invalidAddresses>>

\* handleAccountsChanged
handleAccountsChanged(s, accounts) ==
    IF accounts = ""
    THEN addToast(setAccount(s, ""), "Please connect your wallet", "warning")
    ELSE setAccount(s, accounts)

\* The wallet's authorised account changes and it emits accountsChanged.
WalletAccountsChanged(accounts) ==
    /\ Ready
    /\ events < MaxEvents
    /\ events' = events + 1
    /\ hasEthereum
    /\ accounts # walletAccounts
    /\ walletAccounts' = accounts
    /\ Apply([World EXCEPT !.s = handleAccountsChanged(@, accounts)])
    /\ listeners' = Rerender(listeners)
    /\ UNCHANGED <<mounted, hasEthereum, now, walletChain, invalidAddresses>>

(***************************************************************************)
(* The notification queue on its own: expiry, dismissal, the clock, and    *)
(* the calls of the page (DicePage gets addToast and handleError).         *)
(***************************************************************************)
\* The timer addToast set for a toast fires.  The 5000 ms are not measured
\* against the clock: expiry may come at any moment while the toast is shown,
\* which covers every moment the timer can fire at.  The timer of a toast the
\* queue no longer holds filters nothing out and is a stuttering step.
ToastExpires(id) ==
    /\ mounted = "mounted"
    /\ \E i \in 1..Len(toasts) : toasts[i].id = id
    /\ Apply([World EXCEPT !.s = removeToast(@, id)])
    /\ listeners' = Rerender(listeners)
    /\ UNCHANGED <<mounted, hasEthereum, now, walletChain, walletAccounts,
                   events, invalidAddresses>>

\* the close button of a toast
RemoveToast(id) ==
    /\ mounted = "mounted"
    /\ \E i \in 1..Len(toasts) : toasts[i].id = id
    /\ Apply([World EXCEPT !.s = removeToast(@, id)])
    /\ listeners' = Rerender(listeners)
    /\ UNCHANGED <<mounted, hasEthereum, now, walletChain, walletAccounts,
                   events, invalidAddresses>>

Tick ==
    /\ now < StartTick + MaxNow
    /\ now' = now + 1
    /\ UNCHANGED <<mounted, hasEthereum, provider, contracts, account, chainId, toasts,
                   loadingStates, lastErrorKey, walletChain, walletAccounts, listeners,
                   flow, events, invalidAddresses>>

PageToasts ==
    {<<"Bet placed", "success">>, <<"Approving tokens", "info">>,
     <<"Transaction pending", "info">>}

PageAddToast(message, type) ==
    /\ mounted = "mounted"
    /\ Apply([World EXCEPT !.s = addToast(@, message, type)])
    /\ listeners' = Rerender(listeners)
    /\ UNCHANGED <<mounted, hasEthereum, now, walletChain, walletAccounts,
                   events, invalidAddresses>>

PageErrors ==
    {UserRejectedError, InternalRpcError,
     Err(0, <<"execution", "reverted:", "insufficient", "allowance">>),
     Err(0, <<>>)}

PageOnError(error) ==
    /\ mounted = "mounted"
    /\ Apply([World EXCEPT !.s = handleError(@, error)])
    /\ listeners' = Rerender(listeners)
    /\ UNCHANGED <<mounted, hasEthereum, now, walletChain, walletAccounts,
                   events, invalidAddresses>>

(***************************************************************************)
(* Two errors of code -32603, 200 ms (one tick) apart, handed to           *)
(* handleError by the page; before the first the page may show toasts of   *)
(* its own and time may pass.                                              *)
(***************************************************************************)
InternalErrors ==
    {InternalRpcError, Err(INTERNAL_ERROR, <<>>),
     Err(INTERNAL_ERROR, <<"could", "not", "coalesce", "error">>)}

NetworkIssueText == Classify(InternalRpcError).message

\* the toast of an error handled `age` ticks ago is shown
ErrorToastAged(age) ==
    \E i \in 1..Len(toasts) : /\ toasts[i].message = NetworkIssueText
                               /\ toasts[i].id.time = now - age

NoErrorYet == lastErrorKey = NoErrorKey

BeforeAddToast(message, type) == NoErrorYet /\ PageAddToast(message, type)

BeforeTick == NoErrorYet /\ now < StartTick + MaxNow - 1 /\ Tick

FirstError(error) == NoErrorYet /\ PageOnError(error)

BetweenTick == ErrorToastAged(0) /\ Tick

SecondError(error) == ErrorToastAged(1) /\ PageOnError(error)

(***************************************************************************)
(* The errors the page and the flows hand to handleError, by code and by   *)
(* what the message holds: nothing, one of the two phrases, both, neither. *)
(***************************************************************************)
ErrorCodes == {0, USER_REJECTED, REQUEST_PENDING, INTERNAL_ERROR, UNRECOGNIZED_CHAIN}

ErrorMessages ==
    {<<>>,
     <<"execution", "reverted">>,
     <<"execution", "reverted:", "insufficient", "allowance">>,
     <<"execution", "reverted:", "insufficient", "balance">>,
     <<"insufficient", "balance", "and", "insufficient", "allowance">>}

ClassifierErrors == {Err(c, m) : c \in ErrorCodes, m \in ErrorMessages}

\* A burst of errors: the page hands errors to handleError until BurstLen
\* toasts are shown, while time passes.
BurstLen == 2

BurstError(error) == Len(toasts) < BurstLen /\ PageOnError(error)

NextClassifier ==
    \/ \E e \in ClassifierErrors : BurstError(e)
    \/ Tick

(***************************************************************************)
(* Specifications.                                                         *)
(***************************************************************************)
\* The state of App before its effects run, in a browser whose wallet (if
\* any) is on some chain and has or has not authorised an account.
InitialApp ==
    /\ mounted = "initial"
    /\ provider = InitialState.provider
    /\ contracts = InitialState.contracts
    /\ account = InitialState.account
    /\ chainId = InitialState.chainId
    /\ toasts = InitialState.toasts
    /\ loadingStates = InitialState.loadingStates
    /\ lastErrorKey = InitialState.lastErrorKey
    /\ now = StartTick
    /\ walletChain \in Chains
    /\ walletAccounts \in {""} \cup Accounts
    /\ listeners = NoListeners
    /\ flow = [f \in FlowIds |-> IdleFlow]
    /\ events = 0

\* a build whose environment holds every contract address
Init ==
    /\ hasEthereum \in BOOLEAN
    /\ invalidAddresses = {}
    /\ InitialApp

\* builds in which one address of the Apothem network is missing or malformed
BrokenEnvironments ==
    {{NETWORKS.APOTHEM.contracts.token}, {NETWORKS.APOTHEM.contracts.dice}}

InitBrokenEnvironment ==
    /\ hasEthereum = TRUE
    /\ invalidAddresses \in BrokenEnvironments
    /\ InitialApp
    /\ walletChain = APOTHEM_CHAIN_ID

\* A page with no wallet, after its effects ran: only the notification queue
\* moves.
InitNotifications ==
    /\ mounted = "mounted"
    /\ hasEthereum = FALSE
    /\ provider = InitialState.provider
    /\ contracts = InitialState.contracts
    /\ account = InitialState.account
    /\ chainId = InitialState.chainId
    /\ toasts = InitialState.toasts
    /\ loadingStates = [provider |-> FALSE, contracts |-> FALSE, wallet |-> FALSE]
    /\ lastErrorKey = InitialState.lastErrorKey
    /\ now = StartTick
    /\ walletChain = MAINNET_CHAIN_ID
    /\ walletAccounts = ""
    /\ listeners = NoListeners
    /\ flow = [f \in FlowIds |-> IdleFlow]
    /\ events = 0
    /\ invalidAddresses = {}

NextNotifications ==
    \/ \E m \in PageToasts : PageAddToast(m[1], m[2])
    \/ \E e \in PageErrors : PageOnError(e)
    \/ \E i \in 1..Len(toasts) : ToastExpires(toasts[i].id)
    \/ \E i \in 1..Len(toasts) : RemoveToast(toasts[i].id)
    \/ Tick

Next ==
    \/ Mount
    \/ Unmount
    \/ Init_ethAccounts
    \/ \E f \in FlowIds : ValidateNetwork_getNetwork(f)
    \/ \E f \in FlowIds : ValidateNetwork_getBlockNumber(f)
    \/ \E f \in FlowIds : InitializeContracts_getNetwork(f)
    \/ \E f \in FlowIds : InitializeContracts_getSigner(f)
    \/ ConnectWallet
    \/ Connect_requestAccounts
    \/ Connect_getNetwork
    \/ \E t \in {"mainnet", "testnet"} : SwitchNetwork(t)
    \/ \E r \in Runs : Switch_request(r)
    \/ \E r \in Runs : Switch_addChain(r)
    \/ \E r \in Runs : Switch_promise(r)
    \/ \E r \in Runs : SwitchTimerFires(r)
    \/ HandleLogout
    \/ \E c \in Chains : WalletChainChanged(c)
    \/ \E a \in {""} \cup Accounts : WalletAccountsChanged(a)

Spec == Init /\ [][Next]_vars

SpecBrokenEnvironment == InitBrokenEnvironment /\ [][Next]_vars

SpecNotifications == InitNotifications /\ [][NextNotifications]_vars

NextTwoErrors ==
    \/ \E m \in PageToasts : BeforeAddToast(m[1], m[2])
    \/ BeforeTick
    \/ \E e \in InternalErrors : FirstError(e)
    \/ BetweenTick
    \/ \E e \in InternalErrors : SecondError(e)

SpecTwoErrors == InitNotifications /\ [][NextTwoErrors]_vars

SpecClassifier == InitNotifications /\ [][NextClassifier]_vars

(***************************************************************************)
(* Properties.                                                             *)
(***************************************************************************)
\* the handles initializeContracts binds for an account on a chain
BoundContracts(id, signer) ==
    [token |-> Contract(NetworkOf(id).contracts.token, signer),
     dice |-> Contract(NetworkOf(id).contracts.dice, signer)]

SwitchInFlight == \E r \in Runs : InFlight(r)

\* C1: contracts is never non-empty while chainId is unsupported (or absent)
\* or account is empty.
C1_ContractsOnlyWithChainAndAccount ==
    contracts # NoContracts => (chainId \in SUPPORTED_CHAIN_IDS /\ account # "")

\* every handler and flow has run to its end
Quiescent == \A f \in FlowIds : ~InFlight(f)

\* C2: once every handler has run to its end, contracts, if non-empty (with
\* an account set, on a supported chain), holds the handles bound at the
\* registry addresses of chainId with a signer for the current account; so
\* after an accountsChanged event with a new account no handle of the
\* previous account remains.
C2_ContractsSignedByCurrentAccount ==
    (/\ Quiescent
     /\ contracts # NoContracts
     /\ account # ""
     /\ chainId \in SUPPORTED_CHAIN_IDS)
        => contracts = BoundContracts(chainId, account)

\* C3: at most one switchNetwork run is in flight at any time (a second
\* request is rejected before it issues a wallet request, arms a timer or
\* registers a listener).
C3_OneSwitchAtATime == Cardinality({r \in Runs : InFlight(r)}) <= 1

\* a step in which the wallet pushed accountsChanged, or chainChanged for a
\* chain no run in flight is waiting for
WalletEventStep ==
    /\ events' = events + 1
    /\ \/ walletAccounts' # walletAccounts
       \/ /\ walletChain' # walletChain
          /\ \A r \in Runs : InFlight(r) => flow[r].target # walletChain'

\* C4: while a switchNetwork run is in flight, a pushed chainChanged or
\* accountsChanged event changes nothing of the session and starts no
\* validation or binding.
C4_EventsWaitForSwitch ==
    [][(SwitchInFlight /\ WalletEventStep)
          => (UNCHANGED session /\ flow'["chain"] = flow["chain"])]_vars

\* the step in which run r resolves
Resolves(r) == InFlight(r) /\ flow'[r].pc = "done"

\* C5 (as stated): a run whose timer fired before a chainChanged for the
\* target was seen resolves as timed out, with provider and contracts empty.
C5_TimerFirstMeansTimedOut ==
    [][\A r \in Runs :
          (Resolves(r) /\ flow[r].promise = "rejected")
              => /\ flow'[r].error = SwitchTimeoutError
                 /\ provider' = "null"
                 /\ contracts' = NoContracts]_vars

\* C5 (amended): a run whose wallet requests were answered without error and
\* whose timer fired before a chainChanged for the target was seen resolves
\* as timed out; every run that resolves with an error, timed out or not,
\* leaves provider and contracts empty.
C5_TimedOutAfterAcceptedRequest ==
    [][\A r \in Runs :
          /\ (/\ Resolves(r)
              /\ flow[r].pc = "switchNetwork:networkSwitchPromise"
              /\ flow[r].promise = "rejected")
                 => flow'[r].error = SwitchTimeoutError
          /\ (Resolves(r) /\ flow'[r].error # NoError)
                 => (provider' = "null" /\ contracts' = NoContracts)]_vars

C5_Witness ==
    \E r \in Runs : /\ flow[r].pc = "done"
                    /\ flow[r].error = SwitchTimeoutError
                    /\ flow[r].timer = "fired"
                    /\ provider = "null"
                    /\ contracts = NoContracts

\* C6: once a switchNetwork run has resolved, its chainChangeHandler is no
\* longer registered on the wallet.
C6_NoListenerAfterResolve ==
    \A r \in Runs : flow[r].pc = "done" => r \notin listeners.temp

RECURSIVE CountMethod(_, _)
CountMethod(requests, method) ==
    IF requests = <<>> THEN 0
    ELSE (IF Head(requests).method = method THEN 1 ELSE 0)
         + CountMethod(Tail(requests), method)

\* C7: a run whose add-chain request (carrying the target's name, rpcUrl and
\* native currency) was answered has issued the switch request a second
\* time, and no more.
C7_SwitchReissuedAfterAddChain ==
    \A r \in Runs :
        /\ \A i \in 1..Len(flow[r].requests) :
              flow[r].requests[i].method = "wallet_addEthereumChain"
                  => /\ flow[r].requests[i].params[1].chainName
                            = NetworkOf(flow[r].target).name
                     /\ flow[r].requests[i].params[1].rpcUrls
                            = <<NetworkOf(flow[r].target).rpcUrl>>
                     /\ flow[r].requests[i].params[1].nativeCurrency.symbol = "XDC"
        /\ (/\ CountMethod(flow[r].requests, "wallet_addEthereumChain") = 1
            /\ flow[r].pc # "switchNetwork:wallet_addEthereumChain")
               => CountMethod(flow[r].requests, "wallet_switchEthereumChain") = 2

AllOrNothing ==
    \/ contracts = NoContracts
    \/ \E id \in SUPPORTED_CHAIN_IDS, a \in Accounts : contracts = BoundContracts(id, a)

\* the step in which flow f leaves initializeContracts
BindingEnds(f) ==
    /\ flow[f].pc \in {"initializeContracts:getNetwork", "initializeContracts:getSigner"}
    /\ flow'[f].pc \notin {"initializeContracts:getNetwork", "initializeContracts:getSigner"}
    /\ mounted' = "mounted"

\* initializeContracts of flow f cannot succeed in this step: the signer is
\* not to be had, or a constructor gets an unusable address
BindingMustFail(f) ==
    \/ flow[f].pc = "initializeContracts:getNetwork"
    \/ walletAccounts # flow[f].account
    \/ NetworkOf(flow[f].chain).contracts.token \in invalidAddresses
    \/ NetworkOf(flow[f].chain).contracts.dice \in invalidAddresses

\* C8: contracts holds both handles, bound for one chain and one signer, or
\* none; a run of initializeContracts leaves either the two handles it bound
\* for its account or none, and none when the signer or a constructor fails.
C8_BindingAllOrNothing ==
    /\ []AllOrNothing
    /\ [][\A f \in FlowIds :
             BindingEnds(f)
                 => /\ contracts' \in {NoContracts,
                                       BoundContracts(flow[f].chain, flow[f].account)}
                    /\ BindingMustFail(f) => contracts' = NoContracts]_vars

C8_Witness ==
    /\ contracts = NoContracts
    /\ account # ""
    /\ \E a \in invalidAddresses : lastErrorKey.message = ContractTargetError(a).message

HasMessage(ts, message) == \E i \in 1..Len(ts) : ts[i].message = message

Ids(ts) == {ts[i].id : i \in 1..Len(ts)}

\* C9: addToast of a text the queue holds changes nothing; addToast of a text
\* it does not hold (never enqueued, expired or dismissed) appends a toast
\* with a new id; either way the queue then holds the text exactly once.
C9_SameTextOnce ==
    [][\A m \in PageToasts :
          PageAddToast(m[1], m[2])
              => /\ HasMessage(toasts, m[1]) => toasts' = toasts
                 /\ ~HasMessage(toasts, m[1])
                        => /\ toasts'[Len(toasts')].message = m[1]
                           /\ toasts'[Len(toasts')].id \notin Ids(toasts)
                 /\ Cardinality({i \in 1..Len(toasts') : toasts'[i].message = m[1]}) = 1]_vars

C9_Witness ==
    /\ Len(toasts) = 2
    /\ toasts[1].message = "Approving tokens"
    /\ toasts[2].message = "Bet placed"
    /\ toasts[1].id.time < toasts[2].id.time
    /\ now > toasts[2].id.time

\* C10: the queue never holds more than 3 toasts, they stand in the order
\* they were created in, and addToast of a new text to a full queue drops
\* the oldest toast and appends the new one.
C10_AtMostThreeOldestEvicted ==
    /\ [](/\ Len(toasts) <= TOAST_LIMIT
          /\ \A i, j \in 1..Len(toasts) :
                i < j => /\ toasts[i].id.time <= toasts[j].id.time
                         /\ toasts[i].id # toasts[j].id)
    /\ [][\A m \in PageToasts :
             (PageAddToast(m[1], m[2]) /\ Len(toasts) = TOAST_LIMIT
                  /\ ~HasMessage(toasts, m[1]))
                 => /\ Len(toasts') = TOAST_LIMIT
                    /\ SubSeq(toasts', 1, TOAST_LIMIT - 1) = Tail(toasts)
                    /\ toasts'[TOAST_LIMIT].message = m[1]]_vars

C10_Witness ==
    /\ Len(toasts) = TOAST_LIMIT
    /\ toasts[1].id.time > StartTick
    /\ toasts[TOAST_LIMIT].id.time > toasts[1].id.time

CountMessage(ts, message) == Cardinality({i \in 1..Len(ts) : ts[i].message = message})

\* C11: of two errors of code -32603 handed to handleError 200 ms apart, in
\* the same clock second or not, with the same raw message or not, the first
\* shows the "Network connection issue" toast and the second leaves exactly
\* that one toast of this text in the queue.
C11_TwoInternalErrorsOneToast ==
    [][\A e \in InternalErrors :
          /\ FirstError(e) => /\ CountMessage(toasts', NetworkIssueText) = 1
                              /\ ErrorToastAged(0)'
          /\ SecondError(e) => /\ CountMessage(toasts', NetworkIssueText) = 1
                               /\ \A i \in 1..Len(toasts') :
                                      toasts'[i].message = NetworkIssueText
                                          => toasts'[i].id.time = now - 1]_vars

\* the second error came in the next clock second, under a new key, and the
\* queue still holds the one toast of the first
C11_Witness ==
    /\ ErrorToastAged(1)
    /\ CountMessage(toasts, NetworkIssueText) = 1
    /\ lastErrorKey.second = Second(now)
    /\ Second(now - 1) # Second(now)
    /\ Len(toasts) = TOAST_LIMIT

\* the step in which connectWallet gets its signer and runs to its end, with
\* the wallet still on the chain the connect found and holding the account
\* it authorised, and no other flow under way
ConnectCompletes ==
    /\ flow["connect"].pc = "initializeContracts:getSigner"
    /\ walletAccounts = flow["connect"].account
    /\ walletChain = flow["connect"].chain
    /\ \A f \in FlowIds \ {"connect"} : ~InFlight(f)
    /\ Apply(initializeContractsGotSigner(World, "connect", TRUE))

\* C12: a connect during which the wallet authorises account a, stays on the
\* supported chain c and answers every call ends with account = a,
\* chainId = c and both handles bound at the registry addresses of c with a
\* signer for a.
C12_ConnectBindsForChainAndAccount ==
    [][ConnectCompletes
          => /\ flow["connect"].chain \in SUPPORTED_CHAIN_IDS
             /\ flow["connect"].account \in Accounts
             /\ account' = flow["connect"].account
             /\ chainId' = flow["connect"].chain
             /\ contracts' = BoundContracts(flow["connect"].chain, flow["connect"].account)
             /\ ~InFlight("connect")']_vars

\* connected on chain 51 as 0x1111: the token handle is at chain 51's address
C12_Witness ==
    /\ account = "0x1111"
    /\ chainId = APOTHEM_CHAIN_ID
    /\ contracts.token = Contract("VITE_APOTHEM_TOKEN_ADDRESS", "0x1111")
    /\ contracts.dice = Contract("VITE_APOTHEM_DICE_ADDRESS", "0x1111")
    /\ HasMessage(toasts, "Wallet connected successfully!")
    /\ Quiescent

\* the messages of the errors that are not recoverable: unsupported network,
\* unreachable network, binding failure, switch timeout
NonRecoverableMessages ==
    {UnsupportedNetworkError(c).message : c \in Chains}
        \cup {NetworkUnreachableError(c).message : c \in SUPPORTED_CHAIN_IDS}
        \cup {UnsupportedBindingError(c).message : c \in Chains}
        \cup {ContractTargetError(a).message : a \in BrokenEnvironments}
        \cup {SignerError.message, SwitchTimeoutError.message}

\* C13: in the step in which a flow hands a non-recoverable error to
\* handleError (the flows run to their end in that same step), provider and
\* contracts end up empty.
C13_NonRecoverableClearsSession ==
    [][(/\ mounted' = "mounted"
        /\ lastErrorKey' # lastErrorKey
        /\ lastErrorKey'.message \in NonRecoverableMessages)
          => (provider' = "null" /\ contracts' = NoContracts)]_vars

RecoverableErrors == {UserRejectedError, RequestPendingError}

\* a toast of the classification of the error is shown, as a warning
WarningShown(ts, error) ==
    \E i \in 1..Len(ts) : /\ ts[i].message = Classify(error).message
                           /\ ts[i].type = "warning"

\* the wallet answers the switch request of run r with error e
SwitchRequestFails(r, e) ==
    /\ flow[r].pc = "switchNetwork:wallet_switchEthereumChain"
    /\ flow'[r].pc = "done"
    /\ flow'[r].error = e

\* the wallet answers eth_requestAccounts of connectWallet with error e
AccountRequestFails(e) ==
    /\ flow["connect"].pc = "connectWallet:eth_requestAccounts"
    /\ ~InFlight("connect")'
    /\ lastErrorKey' = ErrorKey(e, now)

\* C14: the step in which the wallet answers a switch request or the account
\* request with error 4001 or -32002 shows a warning and leaves the session
\* as it was before the flow: switchNetwork has not touched provider, account
\* or chainId before its request, connectWallet not chainId or contracts.
C14_RecoverableKeepsSession ==
    [][\A e \in RecoverableErrors :
          /\ \A r \in Runs :
                (SwitchRequestFails(r, e) /\ flow[r].caller = "user")
                    => /\ WarningShown(toasts', e)
                       /\ provider' = provider
                       /\ account' = account
                       /\ chainId' = chainId
          /\ AccountRequestFails(e)
                => /\ WarningShown(toasts', e)
                   /\ chainId' = chainId
                   /\ contracts' = contracts]_vars

\* the step in which validateNetwork of flow f throws after getNetwork()
ValidateNetworkRejects(f) ==
    /\ flow[f].pc = "validateNetwork:getNetwork"
    /\ flow'[f] # flow[f]
    /\ flow'[f].pc # "validateNetwork:getBlockNumber"
    /\ mounted' = "mounted"

\* C15: a run of validateNetwork that fails (here: at the answer of
\* getNetwork(), where the unsupported chain and the missing configuration
\* are found) leaves chainId as it was.
C15_ChainIdOnlyOnSuccess ==
    [][\A f \in FlowIds : ValidateNetworkRejects(f) => chainId' = chainId]_vars

\* contracts c are handles at the addresses NETWORKS lists for chain id
BoundTo(c, id) == \E a \in Accounts : c = BoundContracts(id, a)

\* the wallet pushes chainChanged for a supported chain while an account is set
SupportedChainEvent ==
    /\ walletChain' # walletChain
    /\ walletChain' \in SUPPORTED_CHAIN_IDS
    /\ events' = events + 1
    /\ account # ""

\* the step in which handleChainChanged shows its success toast
ChainChangeSucceeds ==
    /\ InFlight("chain")
    /\ ~InFlight("chain")'
    /\ ~HasMessage(toasts, "Network changed successfully")
    /\ HasMessage(toasts', "Network changed successfully")

\* C16: a chainChanged event for a supported chain with an account set makes
\* handleChainChanged take a fresh provider and start validation, whatever
\* provider was; and where the handler shows its success toast the contracts
\* are bound at the addresses of the chain the wallet is on.
C16_ChainEventRebinds ==
    [][/\ SupportedChainEvent
          => (provider' = "BrowserProvider" /\ InFlight("chain")')
       /\ ChainChangeSucceeds
          => BoundTo(contracts', walletChain)]_vars

\* the step in which run r of switchNetwork returns normally
SwitchSucceeds(r) ==
    /\ InFlight(r)
    /\ flow'[r].pc = "done"
    /\ flow'[r].error = NoError

\* C17: a switchNetwork run called with an account set returns normally (and
\* shows its success toast) only with a provider in the state and the
\* contracts bound at the addresses of its target chain.
C17_SwitchSuccessMeansBound ==
    [][\A r \in Runs :
          (SwitchSucceeds(r) /\ flow[r].caller = "user" /\ account # "")
              => /\ HasMessage(toasts', "Successfully switched to "
                                            \o NetworkOf(flow[r].target).name)
                 /\ provider' = "BrowserProvider"
                 /\ BoundTo(contracts', flow[r].target)]_vars

\* C18: when the switchNetwork run that connectWallet started on an
\* unsupported chain returns normally, connectWallet ends with the account
\* the wallet authorised and the contracts bound at chain 50's addresses.
C18_ConnectAfterSwitchBinds ==
    [][\A r \in Runs :
          (SwitchSucceeds(r) /\ flow[r].caller = "connect")
              => /\ flow[r].target = MAINNET_CHAIN_ID
                 /\ ~InFlight("connect")'
                 /\ account' = flow["connect"].account
                 /\ contracts' = BoundContracts(MAINNET_CHAIN_ID,
                                                flow["connect"].account)]_vars

Binding == {"initializeContracts:getNetwork", "initializeContracts:getSigner"}

\* flow f enters initializeContracts
BindingStarts(f) == flow[f].pc \notin Binding /\ flow'[f].pc \in Binding

\* flow f leaves initializeContracts with handles in `contracts`
BindingBinds(f) ==
    /\ flow[f].pc = "initializeContracts:getSigner"
    /\ flow'[f].pc \notin Binding
    /\ mounted' = "mounted"
    /\ contracts' # NoContracts

\* C19: in every flow initializeContracts is entered only from the end of
\* validateNetwork of the flow's provider (in init, from the eth_accounts
\* answer that follows it) with a supported chain validated; and the chain
\* whose addresses the binding takes is the chain validation accepted, also
\* when the wallet changed chain in between.
C19_BindingAfterValidationSameChain ==
    [][\A f \in FlowIds :
          /\ flow'[f].pc = "init:eth_accounts"
                => flow[f].pc \in {"validateNetwork:getBlockNumber", "init:eth_accounts"}
          /\ BindingStarts(f)
                => /\ flow[f].pc \in {"validateNetwork:getBlockNumber", "init:eth_accounts"}
                   /\ flow[f].chain \in SUPPORTED_CHAIN_IDS
                   /\ flow'[f].chain = flow[f].chain
          /\ (flow[f].pc \in Binding /\ flow'[f].pc \in Binding)
                => flow'[f].chain = flow[f].chain
          /\ BindingBinds(f) => BoundTo(contracts', flow[f].chain)]_vars

\* the wallet changed chain between the validation and the binding of the
\* startup flow, and the binding refused
C19_Witness ==
    /\ flow["init"].pc = "done"
    /\ flow["init"].chain \in SUPPORTED_CHAIN_IDS
    /\ walletChain \in SUPPORTED_CHAIN_IDS \ {flow["init"].chain}
    /\ lastErrorKey.message = NetworkChangedError.message
    /\ account # ""
    /\ contracts = NoContracts

\* C20: while App is mounted in a browser with a wallet exactly one
\* handleAccountsChanged and exactly one handleChainChanged are registered on
\* window.ethereum, however often provider or account changed; before the
\* first render and after the unmount none is.
C20_OneHandlerOfEachKind ==
    /\ (mounted = "mounted" /\ hasEthereum)
          => (listeners.accountsChanged = 1 /\ listeners.chainChanged = 1)
    /\ (mounted # "mounted" \/ ~hasEthereum)
          => (listeners.accountsChanged = 0 /\ listeners.chainChanged = 0)

\* provider and account both changed since the first render (the effect
\* re-ran at least twice) and one handler of each kind is registered
C20_Witness ==
    /\ mounted = "mounted"
    /\ provider = "null"
    /\ account # ""
    /\ events = MaxEvents
    /\ listeners.accountsChanged = 1
    /\ listeners.chainChanged = 1

\* A row of a classification table: the code it matches (0: none), the
\* phrase the message must contain (<<>>: none), the category and the text.
Row(code, phrase, category, message) ==
    [code |-> code, phrase |-> phrase, category |-> category, message |-> message]

RowMatches(row, error) ==
    \/ row.code # 0 /\ error.code = row.code
    \/ row.phrase # <<>> /\ Includes(error.message, row.phrase)

GenericRow == Row(0, <<>>, "error", "Something went wrong. Please try again later.")

\* the first row of the table that matches the error, the generic one if none
FirstRow(table, error) ==
    IF \E i \in 1..Len(table) : RowMatches(table[i], error)
    THEN table[CHOOSE i \in 1..Len(table) :
                   /\ RowMatches(table[i], error)
                   /\ \A j \in 1..(i - 1) : ~RowMatches(table[j], error)]
    ELSE GenericRow

\* the table with the short texts
ShortTextRows ==
    <<Row(USER_REJECTED, <<>>, "warning", "Transaction cancelled by user"),
      Row(REQUEST_PENDING, <<>>, "warning", "A connection request is already pending"),
      Row(INTERNAL_ERROR, <<>>, "error", "Network connection issue"),
      Row(0, <<"insufficient", "allowance">>, "error", "Insufficient token allowance"),
      Row(0, <<"insufficient", "balance">>, "error", "Insufficient token balance")>>

\* the table with the full texts
FullTextRows ==
    <<Row(USER_REJECTED, <<>>, "warning", "Transaction cancelled by user"),
      Row(REQUEST_PENDING, <<>>, "warning",
          "Please check your wallet - a connection request is pending"),
      Row(INTERNAL_ERROR, <<>>, "error",
          "Network connection issue. Please check your wallet connection."),
      Row(0, <<"insufficient", "allowance">>, "error",
          "Insufficient token allowance. Please approve tokens first."),
      Row(0, <<"insufficient", "balance">>, "error",
          "Insufficient token balance for this transaction.")>>

\* the queue shows the row's text with the row's category
Shows(ts, row) ==
    \E i \in 1..Len(ts) : ts[i].message = row.message /\ ts[i].type = row.category

\* handleError takes the error and does not suppress it
Surfaces(error) == PageOnError(error) /\ lastErrorKey' # lastErrorKey

\* C21 as stated: every error handleError surfaces is shown with the category
\* and text of the first matching row of the table "Transaction cancelled by
\* user" / "A connection request is already pending" / "Network connection
\* issue" / "Insufficient token allowance" / "Insufficient token balance",
\* the generic message otherwise, codes before message phrases.
C21_ClassifierShortTexts ==
    [][\A e \in ClassifierErrors :
          Surfaces(e) => Shows(toasts', FirstRow(ShortTextRows, e))]_vars

\* C21 amended: every error handleError surfaces is shown with the category
\* and text of the first matching row in order 4001, -32002, -32603,
\* "insufficient allowance", "insufficient balance", where the texts are the
\* full ones ("Please check your wallet - a connection request is pending",
\* ...); "Something went wrong. Please try again later." when no row matches.
C21_ClassifierFirstRow ==
    [][\A e \in ClassifierErrors :
          Surfaces(e) => Shows(toasts', FirstRow(FullTextRows, e))]_vars

\* an error of code 4001 whose message holds "insufficient allowance" was
\* surfaced as the cancellation warning
C21_Witness ==
    /\ Includes(lastErrorKey.message, <<"insufficient", "allowance">>)
    /\ Len(toasts) = 1
    /\ toasts[1].message = "Transaction cancelled by user"
    /\ toasts[1].type = "warning"

\* the queue shows the classification of the error
ShowsClassOf(ts, error) ==
    \E i \in 1..Len(ts) : /\ ts[i].message = Classify(error).message
                           /\ ts[i].type = Classify(error).type

\* C22: handleError drops an error only when an error of the same
\* classification was surfaced in the same second: in a burst, where no toast
\* leaves the queue, an error whose classification the queue does not show
\* reaches the queue when it is handed to handleError, whatever error was
\* surfaced before it in the same second.
C22_KeyIsClassification ==
    \A e \in ClassifierErrors :
        ~ShowsClassOf(toasts, e) => ShowsClassOf(handleError(State, e).toasts, e)

\* Run r waits on networkSwitchPromise after the wallet accepted its
\* wallet_switchEthereumChain request, which it does when it is on the
\* target chain (no wallet_addEthereumChain was needed).
SwitchAccepted(r) ==
    /\ flow[r].pc = "switchNetwork:networkSwitchPromise"
    /\ Len(flow[r].requests) = 1

\* C23: a switchNetwork run whose request the wallet accepted, being on the
\* target chain when the request returned, does not end as a timeout and
\* does not clear provider for one - also when the wallet was on the target
\* chain before the request and when the answer came after the timer fired.
C23_AcceptedSwitchNeverTimesOut ==
    [][\A r \in Runs :
          (SwitchAccepted(r) /\ flow'[r].pc = "done")
              => /\ flow'[r].error # SwitchTimeoutError
                 /\ lastErrorKey'.message # SwitchTimeoutError.message]_vars

\* C24: contracts is non-empty only while a provider is in the state, under
\* every interleaving of the flows, the wallet's events and the timers.
C24_ContractsOnlyWithProvider ==
    contracts # NoContracts => provider # "null"

\* a connectWallet or switchNetwork call has not returned yet
WalletActionInFlight == InFlight("connect") \/ \E r \in Runs : InFlight(r)

\* C25: loadingStates.wallet is true exactly while a connectWallet or
\* switchNetwork call is in flight, also when connectWallet calls
\* switchNetwork and when two switchNetwork calls overlap.
C25_WalletFlagTracksFlows ==
    mounted = "mounted" => (loadingStates.wallet <=> WalletActionInFlight)

====
